---------------------------- MODULE Spec2Model ----------------------------
(***************************************************************************)
(* Model of gossip/remote_iterator_creator.go: the retrying request        *)
(* executor ExpBackoffRequest, the node directory lookup AliveNodesMap and *)
(* the three RemoteIteratorCreator operations CreateIterator,              *)
(* FieldDimensions and ExpandSources.                                      *)
(*                                                                         *)
(* One goroutine runs one operation at a time.  pc is its position; the    *)
(* call chain operation -> AliveNodesMap -> ExpBackoffRequest is flattened *)
(* into pc values.  The network, the control plane and the codecs are the  *)
(* environment: their outcomes are drawn with \E from small sets.          *)
(*                                                                         *)
(* Durations are in milliseconds.  A response body is a sequence of        *)
(* chunks with a read position and a count of Close() calls.               *)
(***************************************************************************)
EXTENDS Integers, Sequences, FiniteSets, TLC

VARIABLES
    ric,         \* the RemoteIteratorCreator: [ShardID, NodeID]
    cluster,     \* the node array the control plane currently answers with
    op,          \* operation being run: "none" or the method's name
    pc,          \* position of the goroutine
    data,        \* the marshalled command the builder closure captures
    aliveNodes,  \* local aliveNodes of the operation (Nil = nil map)
    nodesErr,    \* error returned by AliveNodesMap (Nil = nil)
    f,           \* endpoint the builder closure passed to the executor targets
    attempt,     \* ExpBackoffRequest: loop variable
    req,         \* ExpBackoffRequest: req
    resp,        \* ExpBackoffRequest: resp
    err,         \* ExpBackoffRequest: err
    trace,       \* events of the current executor run, oldest first
    bodies,      \* response bodies handed out during the current operation
    ret,         \* what the operation returned (Nil while it runs)
    runs,        \* endpoints the executor was run for in this operation
    closeCalls,  \* Close() calls made on the iterator this operation returned
    prevHost,    \* host of the RPC request of the operation before this one
    par          \* the frames of the concurrent invocations

vars == <<ric, cluster, op, pc, data, aliveNodes, nodesErr, f, attempt, req,
          resp, err, trace, bodies, ret, runs, closeCalls, prevHost, par>>

Nil == [nil |-> TRUE]

-----------------------------------------------------------------------------
(* Bounds of the model *)

\* node identifiers are 1..NumNodes
NumNodes == 2
\* most Close() calls made on one iterator
MaxCloseCalls == 2
\* longest point sequence streamed after a /read envelope
MaxPoints == 2

NodeIDs == 1..NumNodes

-----------------------------------------------------------------------------
(* Values *)

\* type NodesList struct: one record of the membership array
Node(id, addr, alive) ==
    [ID |-> id, IP |-> "10.0.0.0", Hostname |-> "host", BindAddress |-> addr,
     Alive |-> alive]

\* the zero value of NodesList, which indexing a map with an absent key yields
ZeroNode ==
    [ID |-> 0, IP |-> "", Hostname |-> "", BindAddress |-> "", Alive |-> FALSE]

\* membership arrays the control plane may answer with
Clusters ==
    { << >>,
      << Node(1, "10.0.0.1:9000", TRUE) >>,
      << Node(1, "10.0.0.2:9000", FALSE) >>,
      << Node(NumNodes, "10.0.0.2:9000", TRUE), Node(1, "10.0.0.1:9000", TRUE) >>,
      << Node(NumNodes, "10.0.0.1:9000", TRUE), Node(NumNodes, "10.0.0.2:9000", FALSE) >> }

\* errors are values [kind, call, msg]
Error(kind, call, msg) == [kind |-> kind, call |-> call, msg |-> msg]
\* the error of the n-th client.Do of an executor run
TransportError(n) == Error("transport", n, "")
\* errors.New(respMessage.Error)
RemoteError(msg) == Error("remote", 0, msg)

\* bytes that are no well-formed message
Garbage == [garbage |-> TRUE]

\* ReadShardCommandResponse_FLOAT, _INTEGER, _STRING, _BOOLEAN
IteratorTypes == {"FLOAT", "INTEGER", "STRING", "BOOLEAN"}
\* values the Type field of a received envelope may hold
WireTypes == IteratorTypes \cup {"OTHER"}
\* values the Error field of a received envelope may hold
WireErrors == {"", "shard not found"}

\* the points streamed after a /read envelope: n points, told apart by position
PointSeqs == { [i \in 1..n |-> [point |-> i]] : n \in 0..MaxPoints }

\* influxql.Sources values
SourcesValues == { << >>, << "cpu" >> }
\* Sources.MarshalBinary: the protobuf encoding of a sources list
MarshalSources(s) == [pb |-> "Measurements", items |-> s]
\* Sources.UnmarshalBinary: the list, or failure on bytes that are no encoding
UnmarshalSources(b) ==
    IF b = Garbage THEN [ok |-> FALSE, val |-> << >>]
    ELSE [ok |-> TRUE, val |-> b.items]

\* response bodies per endpoint, as chunk sequences
NodesBodies == { << [json |-> cluster] >>, << Garbage >> }
ReadBodies ==
    { << [Type |-> t, Error |-> e] >> \o pts :
        t \in WireTypes, e \in WireErrors, pts \in PointSeqs }
    \cup { << Garbage >> }
FieldDimensionsBodies ==
    { << [Error |-> e, Fields |-> fl, Dimensions |-> ds] >> :
        e \in WireErrors,
        fl \in { [k \in {} |-> 0], [k \in {"value"} |-> 1] },
        ds \in { << >>, << "host", "host" >>, << "host", "region" >> } }
    \cup { << Garbage >> }
ExpandSourcesBodies ==
    { << [Error |-> e, Sources |-> b] >> :
        e \in WireErrors,
        b \in { MarshalSources(s) : s \in SourcesValues } \cup { Garbage } }
    \cup { << Garbage >> }

BodiesOf(endpoint) ==
    CASE endpoint = "nodes" -> NodesBodies
      [] endpoint = "read" -> ReadBodies
      [] endpoint = "fielddimensions" -> FieldDimensionsBodies
      [] endpoint = "expandsources" -> ExpandSourcesBodies

\* HTTP status codes of a response
Statuses == {200, 404, 500}

\* the endpoints of the remote node, as opposed to the control plane's
RpcEndpoints == {"read", "fielddimensions", "expandsources"}

-----------------------------------------------------------------------------
(* Program constants *)

\* a loop bound that is one too large: attempt < 7
AttemptLimitOneMore == 6 + 1

\* for attempt := 1; attempt < 6; attempt++
AttemptLimit == 6

\* time.Second, in milliseconds
Second == 1000

-----------------------------------------------------------------------------
(* ExpBackoffRequest: the backoff arithmetic *)

RECURSIVE Pow2(_)
\* math.Pow(2, float64(n)) for a small non-negative integer n (exact)
Pow2(n) == IF n = 0 THEN 1 ELSE 2 * Pow2(n - 1)

\* backoff := (math.Pow(2, float64(attempt)) - 1) / 2, a float64.  The value
\* is a multiple of one half; it is represented by its numerator over 2.
BackoffHalves(a) == Pow2(a) - 1

\* time.Duration(backoff): float64 -> int64 conversion, truncating toward zero
DurationOfBackoff(a) == BackoffHalves(a) \div 2

\* the argument of time.Sleep: time.Duration(backoff) * time.Second
SleepDuration(a) == DurationOfBackoff(a) * Second

-----------------------------------------------------------------------------
(* Helpers over the state *)

\* events of an executor run
Event(e, a, ok, d) == [e |-> e, attempt |-> a, ok |-> ok, d |-> d]
Events(e) == { i \in DOMAIN trace : trace[i].e = e }
Builds == Cardinality(Events("build"))
Calls == Cardinality(Events("do"))
Sleeps == Cardinality(Events("sleep"))

\* aliveNodes[ric.NodeID]: the record, or the zero value for an absent key or
\* a nil map
Lookup(m, id) ==
    IF m # Nil /\ id \in DOMAIN m.map THEN m.map[id] ELSE ZeroNode

\* NodeMap keeping only the nodes whose liveness flag is set
NodeMapAliveOnly(list) ==
    LET ids == { list[i].ID : i \in { j \in DOMAIN list : list[j].Alive } }
        last(id) == CHOOSE i \in DOMAIN list :
                        /\ list[i].ID = id /\ list[i].Alive
                        /\ \A j \in DOMAIN list :
                              (list[j].ID = id /\ list[j].Alive) => j <= i
    IN [id \in ids |-> list[last(id)]]

\* for _, node := range nodeList { nodeMap[node.ID] = node }
NodeMap(list) ==
    LET ids == { list[i].ID : i \in DOMAIN list }
        last(id) == CHOOSE i \in DOMAIN list :
                        /\ list[i].ID = id
                        /\ \A j \in DOMAIN list : list[j].ID = id => j <= i
    IN [id \in ids |-> list[last(id)]]

\* Request with the bind address of the previous call kept and used again
RequestCached(endpoint) ==
    IF endpoint = "nodes"
    THEN [method |-> "GET", host |-> "CFLUX_ENDPOINT", path |-> "nodes",
          body |-> Nil]
    ELSE [method |-> "POST",
          host |-> IF prevHost \notin {"none", ""} THEN prevHost
                   ELSE Lookup(aliveNodes, ric.NodeID).BindAddress,
          path |-> endpoint, body |-> data]

\* the request each builder closure makes
Request(endpoint) ==
    IF endpoint = "nodes"
    THEN [method |-> "GET", host |-> "CFLUX_ENDPOINT", path |-> "nodes",
          body |-> Nil]
    ELSE [method |-> "POST", host |-> Lookup(aliveNodes, ric.NodeID).BindAddress,
          path |-> endpoint, body |-> data]

\* proto.Unmarshal of the bytes read: the possible outcomes.  Bytes that
\* follow a well-formed message either fail to parse or are skipped as
\* unknown fields.
ProtoUnmarshal(bytes) ==
    IF Head(bytes) = Garbage
    THEN { [ok |-> FALSE, msg |-> Nil] }
    ELSE IF Len(bytes) = 1
    THEN { [ok |-> TRUE, msg |-> Head(bytes)] }
    ELSE { [ok |-> TRUE, msg |-> Head(bytes)], [ok |-> FALSE, msg |-> Nil] }

\* body b of bs with its first n chunks read
ReadTo(bs, b, n) == [bs EXCEPT ![b].pos = n]
\* a Close that is never made
CloseBodyMissing(bs, b) == bs

\* resp.Body.Close() on body b
CloseBody(bs, b) == [bs EXCEPT ![b].closes = @ + 1]

-----------------------------------------------------------------------------
(* Concurrent invocations: each goroutine's call as a frame *)

\* the goroutines that invoke an operation of the same creator concurrently
Procs == {1, 2}
\* the operations of the creator
Operations == {"CreateIterator", "FieldDimensions", "ExpandSources"}
\* the path each operation posts to
EndpointOf(name) ==
    CASE name = "CreateIterator" -> "read"
      [] name = "FieldDimensions" -> "fielddimensions"
      [] name = "ExpandSources" -> "expandsources"

\* the locals of goroutine p before it calls anything
IdleFrame(p) ==
    [id |-> p, op |-> "none", pc |-> "idle", f |-> "none", attempt |-> 0,
     builds |-> 0, calls |-> 0, sleeps |-> << >>, resp |-> Nil, err |-> Nil,
     aliveNodes |-> Nil, nodesErr |-> Nil, fetches |-> 0, ret |-> Nil]

\* lines 237-243: entry of ExpBackoffRequest in frame fr; client, resp, req,
\* err and attempt are locals of the call
FrameEnter(fr, endpoint) ==
    [fr EXCEPT !.f = endpoint, !.attempt = 1, !.builds = 0, !.calls = 0,
               !.sleeps = << >>, !.resp = Nil, !.err = Nil, !.pc = "build",
               !.fetches = IF endpoint = "nodes" THEN @ + 1 ELSE @]

\* one step of the code in frame fr; o is the operation called (at "idle") or
\* the outcome of client.Do (at "do": "ok" or "fail").  Builders and codecs
\* succeed here; their failures are in the actions of the single invocation.
FrameStep(fr, o) ==
    CASE fr.pc = "idle" ->
            FrameEnter([fr EXCEPT !.op = o], "nodes")
      [] fr.pc = "build" ->
            [fr EXCEPT !.builds = @ + 1, !.pc = "do"]
      [] fr.pc = "do" ->
            IF o = "ok"
            THEN [fr EXCEPT !.calls = @ + 1,
                            !.resp = [to |-> fr.id, endpoint |-> fr.f,
                                      call |-> fr.calls + 1],
                            !.err = Nil,
                            !.pc = "execret"]
            ELSE [fr EXCEPT !.calls = @ + 1,
                            !.resp = Nil,
                            !.err = TransportError(fr.calls + 1),
                            !.pc = "sleep"]
      [] fr.pc = "sleep" ->
            [fr EXCEPT !.sleeps = Append(@, SleepDuration(fr.attempt)),
                       !.attempt = @ + 1,
                       !.pc = IF fr.attempt + 1 < AttemptLimit
                              THEN "build" ELSE "execret"]
      [] fr.pc = "execret" /\ fr.f = "nodes" ->
            LET g == [fr EXCEPT !.aliveNodes = IF fr.err = Nil
                                               THEN [dir |-> fr.resp] ELSE Nil,
                                !.nodesErr = fr.err]
            IN IF fr.err # Nil /\ fr.op # "CreateIterator"
               THEN [g EXCEPT !.ret = [val |-> Nil, err |-> fr.err],
                              !.pc = "done"]
               ELSE FrameEnter(g, EndpointOf(fr.op))
      [] fr.pc = "execret" /\ fr.f # "nodes" ->
            [fr EXCEPT !.ret = IF fr.err # Nil
                               THEN [val |-> Nil, err |-> fr.err]
                               ELSE [val |-> [from |-> fr.resp], err |-> Nil],
                       !.pc = "done"]
      [] fr.pc = "done" -> fr

\* goroutine p right after it called operation name
StartFrame(p, name) == FrameStep(IdleFrame(p), name)

\* no goroutine has called anything
ParIdle == [p \in Procs |-> [frame |-> IdleFrame(p), ins |-> << >>, steps |-> 0]]

-----------------------------------------------------------------------------
(* Initial state *)

Init ==
    /\ ric \in [ShardID : {1}, NodeID : NodeIDs]
    /\ cluster \in Clusters
    /\ op = "none"
    /\ pc = "idle"
    /\ data = Nil
    /\ aliveNodes = Nil
    /\ nodesErr = Nil
    /\ f = "none"
    /\ attempt = 0
    /\ req = Nil
    /\ resp = Nil
    /\ err = Nil
    /\ trace = << >>
    /\ bodies = << >>
    /\ ret = Nil
    /\ runs = << >>
    /\ closeCalls = 0
    /\ prevHost = "none"
    /\ par = ParIdle

Idle == pc \in {"idle", "done"}

\* the locals of a fresh call
Fresh ==
    /\ aliveNodes' = Nil
    /\ nodesErr' = Nil
    /\ f' = "none"
    /\ attempt' = 0
    /\ req' = Nil
    /\ resp' = Nil
    /\ err' = Nil
    /\ trace' = << >>
    /\ bodies' = << >>
    /\ runs' = << >>
    /\ closeCalls' = 0
    /\ prevHost' = IF f \in RpcEndpoints /\ req # Nil THEN req.host ELSE "none"

\* entry of ExpBackoffRequest(f) with the builder for endpoint
Enter(endpoint) ==
    /\ f' = endpoint
    /\ attempt' = 1
    /\ req' = Nil
    /\ resp' = Nil
    /\ err' = Nil
    /\ trace' = << >>
    /\ runs' = Append(runs, endpoint)
    /\ pc' = "build"

\* the operation returns (val, e)
Return(val, e) ==
    /\ ret' = [val |-> val, err |-> e]
    /\ pc' = "done"

-----------------------------------------------------------------------------
(* Entry of the three operations *)

\* CreateIterator, line 39: the first thing it does is resolve the directory
CallCreateIterator ==
    /\ Idle
    /\ Fresh
    /\ op' = "CreateIterator"
    /\ data' = Nil
    /\ ret' = Nil
    /\ pc' = "AliveNodesMap"
    /\ UNCHANGED <<ric, cluster, par>>

\* lines 106-115 (FieldDimensions) and 164-173 (ExpandSources): marshal the
\* sources and the command; either encoder may fail, which returns the error
MarshalCommand(name) ==
    /\ Idle
    /\ Fresh
    /\ op' = name
    /\ \E sources \in SourcesValues, sourcesOk \in BOOLEAN, cmdOk \in BOOLEAN :
          IF sourcesOk /\ cmdOk
          THEN /\ data' = [ShardID |-> ric.ShardID, Sources |-> MarshalSources(sources)]
               /\ ret' = Nil
               /\ pc' = "AliveNodesMap"
          ELSE /\ data' = Nil
               /\ Return(Nil, Error("marshal", 0, ""))
    /\ UNCHANGED <<ric, cluster, par>>

CallFieldDimensions == MarshalCommand("FieldDimensions")

CallExpandSources == MarshalCommand("ExpandSources")

\* the control plane's membership changes between two operations
MembershipChange ==
    /\ Idle
    /\ cluster' \in Clusters \ {cluster}
    /\ UNCHANGED <<closeCalls, prevHost, par, runs, ric, op, pc, data, aliveNodes, nodesErr, f, attempt, req,
                   resp, err, trace, bodies, ret>>

-----------------------------------------------------------------------------
(* ExpBackoffRequest, lines 237-258 *)

\* Build with the builder's error treated like a transport failure: it backs
\* off and tries again instead of returning
BuildRetriesOnError ==
    /\ pc = "build"
    /\ \E ok \in BOOLEAN :
          /\ trace' = Append(trace, Event("build", attempt, ok, 0))
          /\ IF ok
             THEN /\ req' = Request(f)
                  /\ pc' = "do"
                  /\ UNCHANGED <<resp, err>>
             ELSE /\ req' = Nil
                  /\ resp' = Nil
                  /\ err' = Error("build", 0, "")
                  /\ pc' = "sleep"
    /\ UNCHANGED <<closeCalls, prevHost, par, runs, ric, cluster, op, data, aliveNodes, nodesErr, f, attempt,
                   bodies, ret>>

\* lines 244-248: req, err = f(); a builder error returns (nil, err) at once.
\* f is a function value of the caller: any invocation of it may fail.
Build ==
    /\ pc = "build"
    /\ \E ok \in BOOLEAN :
          /\ trace' = Append(trace, Event("build", attempt, ok, 0))
          /\ IF ok
             THEN /\ req' = Request(f)
                  /\ pc' = "do"
                  /\ UNCHANGED <<resp, err>>
             ELSE /\ req' = Nil
                  /\ resp' = Nil
                  /\ err' = Error("build", 0, "")
                  /\ pc' = "execret"
    /\ UNCHANGED <<closeCalls, prevHost, par, runs, ric, cluster, op, data, aliveNodes, nodesErr, f, attempt,
                   bodies, ret>>

\* Do without the return on success: the loop goes on to the backoff
DoWithoutReturnOnSuccess ==
    /\ pc = "do"
    /\ \/ /\ resp' = Nil
          /\ err' = TransportError(Calls + 1)
          /\ trace' = Append(trace, Event("do", attempt, FALSE, 0))
          /\ UNCHANGED bodies
       \/ /\ req.host # ""
          /\ \E status \in Statuses, sent \in BodiesOf(f) :
                /\ bodies' = Append(bodies, [kind |-> f, sent |-> sent,
                                             pos |-> 0, closes |-> 0])
                /\ resp' = [status |-> status, body |-> Len(bodies) + 1]
          /\ err' = Nil
          /\ trace' = Append(trace, Event("do", attempt, TRUE, 0))
    /\ pc' = "sleep"
    /\ UNCHANGED <<closeCalls, prevHost, par, runs, ric, cluster, op, data, aliveNodes, nodesErr, f, attempt,
                   req, ret>>

\* Do with a 4xx/5xx status treated as a failure that is retried
DoRetriesErrorStatus ==
    /\ pc = "do"
    /\ \/ /\ resp' = Nil
          /\ err' = TransportError(Calls + 1)
          /\ trace' = Append(trace, Event("do", attempt, FALSE, 0))
          /\ pc' = "sleep"
          /\ UNCHANGED bodies
       \/ /\ req.host # ""
          /\ \E status \in Statuses, sent \in BodiesOf(f) :
                /\ bodies' = Append(bodies, [kind |-> f, sent |-> sent,
                                             pos |-> 0, closes |-> 0])
                /\ resp' = [status |-> status, body |-> Len(bodies) + 1]
                /\ IF status >= 400
                   THEN /\ err' = Error("status", Calls + 1, "")
                        /\ trace' = Append(trace, Event("do", attempt, FALSE, 0))
                        /\ pc' = "sleep"
                   ELSE /\ err' = Nil
                        /\ trace' = Append(trace, Event("do", attempt, TRUE, 0))
                        /\ pc' = "execret"
    /\ UNCHANGED <<closeCalls, prevHost, par, runs, ric, cluster, op, data, aliveNodes, nodesErr, f, attempt,
                   req, ret>>

\* lines 249-252: resp, err = client.Do(req).  Either the transport fails, or
\* a response of any status arrives, which returns (resp, nil).  A request
\* whose URL has no host never gets a response.
Do ==
    /\ pc = "do"
    /\ \/ /\ resp' = Nil
          /\ err' = TransportError(Calls + 1)
          /\ trace' = Append(trace, Event("do", attempt, FALSE, 0))
          /\ pc' = "sleep"
          /\ UNCHANGED bodies
       \/ /\ req.host # ""
          /\ \E status \in Statuses, sent \in BodiesOf(f) :
                /\ bodies' = Append(bodies, [kind |-> f, sent |-> sent,
                                             pos |-> 0, closes |-> 0])
                /\ resp' = [status |-> status, body |-> Len(bodies) + 1]
          /\ err' = Nil
          /\ trace' = Append(trace, Event("do", attempt, TRUE, 0))
          /\ pc' = "execret"
    /\ UNCHANGED <<closeCalls, prevHost, par, runs, ric, cluster, op, data, aliveNodes, nodesErr, f, attempt,
                   req, ret>>

\* lines 253-255 and the loop header: sleep, attempt++, test attempt < 6;
\* lines 256-257 when the loop ends: return resp, err
Sleep ==
    /\ pc = "sleep"
    /\ trace' = Append(trace, Event("sleep", attempt, TRUE, SleepDuration(attempt)))
    /\ attempt' = attempt + 1
    /\ pc' = IF attempt + 1 < AttemptLimit THEN "build" ELSE "execret"
    /\ UNCHANGED <<closeCalls, prevHost, par, runs, ric, cluster, op, data, aliveNodes, nodesErr, f, req, resp,
                   err, bodies, ret>>

-----------------------------------------------------------------------------
(* AliveNodesMap, lines 214-234 *)

\* lines 215-219: the builder for the membership endpoint, handed to the executor
AliveNodesMapCall ==
    /\ pc = "AliveNodesMap"
    /\ Enter("nodes")
    /\ UNCHANGED <<closeCalls, prevHost, par, ric, cluster, op, data, aliveNodes, nodesErr, bodies, ret>>

\* lines 220-233: the executor's error, or the decoded array as a map; the
\* JSON decoder reads the body and nothing closes it
AliveNodesMapReturn ==
    /\ pc = "execret"
    /\ f = "nodes"
    /\ IF err # Nil
       THEN /\ aliveNodes' = Nil
            /\ nodesErr' = err
            /\ UNCHANGED bodies
       ELSE LET b == resp.body
                doc == Head(bodies[b].sent)
            IN /\ bodies' = ReadTo(bodies, b, 1)
               /\ IF doc = Garbage
                  THEN /\ aliveNodes' = Nil
                       /\ nodesErr' = Error("json", 0, "")
                  ELSE /\ aliveNodes' = [map |-> NodeMap(doc.json)]
                       /\ nodesErr' = Nil
    /\ pc' = "afterNodes"
    /\ UNCHANGED <<closeCalls, prevHost, par, runs, ric, cluster, op, data, f, attempt, req, resp, err, trace, ret>>

-----------------------------------------------------------------------------
(* CreateIterator, lines 38-102 *)

\* lines 42-64: marshal the options and the command (either may fail, which
\* returns the error), then run the executor with the /read builder.  The
\* error of AliveNodesMap is overwritten unread.
CreateIteratorMarshal ==
    /\ pc = "afterNodes"
    /\ op = "CreateIterator"
    /\ \E optOk \in BOOLEAN, cmdOk \in BOOLEAN :
          IF optOk /\ cmdOk
          THEN /\ data' = [ShardID |-> ric.ShardID, IteratorOptions |-> "opt"]
               /\ Enter("read")
               /\ UNCHANGED ret
          ELSE /\ Return(Nil, Error("marshal", 0, ""))
               /\ UNCHANGED <<data, f, attempt, req, resp, err, trace, runs>>
    /\ UNCHANGED <<closeCalls, prevHost, par, ric, cluster, op, aliveNodes, nodesErr, bodies>>

\* ioutil.ReadAll(resp.Body): everything up to EOF, or an error after some
\* n chunks were read
ReadAllOutcomes(b) ==
    { [ok |-> TRUE, n |-> Len(bodies[b].sent)] }
    \cup { [ok |-> FALSE, n |-> n] : n \in 0..Len(bodies[b].sent) }

\* lines 82-101: the decoder over resp.Body, the close callback, and the
\* switch on respMessage.Type
NewIterator(msg, b) ==
    IF msg.Type \in IteratorTypes
    THEN [val |-> [Type |-> msg.Type, PointDecoder |-> b, Closed |-> FALSE,
                   CloseReader |-> b],
          err |-> Nil]
    ELSE [val |-> Nil, err |-> Error("unsupported", 0, msg.Type)]

\* lines 64-101: from the executor's return to the return of CreateIterator
CreateIteratorFinish ==
    /\ pc = "execret"
    /\ f = "read"
    /\ IF err # Nil
       THEN /\ Return(Nil, err)
            /\ UNCHANGED bodies
       ELSE \E r \in ReadAllOutcomes(resp.body) :
               /\ bodies' = ReadTo(bodies, resp.body, r.n)
               /\ IF ~r.ok
                  THEN Return(Nil, Error("read", 0, ""))
                  ELSE \E u \in ProtoUnmarshal(bodies[resp.body].sent) :
                          IF ~u.ok
                          THEN Return(Nil, Error("decode", 0, ""))
                          ELSE LET res == NewIterator(u.msg, resp.body)
                               IN Return(res.val, res.err)
    /\ UNCHANGED <<closeCalls, prevHost, par, runs, ric, cluster, op, data, aliveNodes, nodesErr, f, attempt,
                   req, resp, err, trace>>

-----------------------------------------------------------------------------
(* FieldDimensions, lines 105-160 *)

\* lines 117-127 (and 175-184 of ExpandSources): return the resolver's error,
\* or run the executor with the operation's builder
Resolved(name, endpoint) ==
    /\ pc = "afterNodes"
    /\ op = name
    /\ IF nodesErr # Nil
       THEN /\ Return(Nil, nodesErr)
            /\ UNCHANGED <<f, attempt, req, resp, err, trace, runs>>
       ELSE /\ Enter(endpoint)
            /\ UNCHANGED ret
    /\ UNCHANGED <<closeCalls, prevHost, par, ric, cluster, op, data, aliveNodes, nodesErr, bodies>>

FieldDimensionsResolved == Resolved("FieldDimensions", "fielddimensions")

\* FieldDimensionsResult without the test of respMessage.Error
FieldDimensionsResultUnchecked(msg) ==
    [val |-> [fields |-> [k \in DOMAIN msg.Fields |-> msg.Fields[k]],
              dimensions |-> { msg.Dimensions[i] : i \in DOMAIN msg.Dimensions }],
     err |-> Nil]

\* lines 145-159: the embedded error, or the fields map and the dimensions set
FieldDimensionsResult(msg) ==
    IF msg.Error # ""
    THEN [val |-> Nil, err |-> RemoteError(msg.Error)]
    ELSE [val |-> [fields |-> [k \in DOMAIN msg.Fields |-> msg.Fields[k]],
                   dimensions |-> { msg.Dimensions[i] : i \in DOMAIN msg.Dimensions }],
          err |-> Nil]

\* FieldDimensionsFinish running the executor again when the response does
\* not decode
FieldDimensionsFinishRetriesDecode ==
    /\ pc = "execret"
    /\ f = "fielddimensions"
    /\ IF err # Nil
       THEN /\ Return(Nil, err)
            /\ UNCHANGED <<bodies, f, attempt, req, resp, err, trace, runs>>
       ELSE \E r \in ReadAllOutcomes(resp.body) :
               /\ bodies' = CloseBody(ReadTo(bodies, resp.body, r.n), resp.body)
               /\ IF ~r.ok
                  THEN /\ Return(Nil, Error("read", 0, ""))
                       /\ UNCHANGED <<f, attempt, req, resp, err, trace, runs>>
                  ELSE \E u \in ProtoUnmarshal(bodies[resp.body].sent) :
                          IF ~u.ok
                          THEN /\ Enter("fielddimensions")
                               /\ UNCHANGED ret
                          ELSE LET res == FieldDimensionsResult(u.msg)
                               IN /\ Return(res.val, res.err)
                                  /\ UNCHANGED <<f, attempt, req, resp, err,
                                                 trace, runs>>
    /\ UNCHANGED <<closeCalls, prevHost, par, ric, cluster, op, data,
                   aliveNodes, nodesErr>>

\* lines 127-159: from the executor's return to the return of FieldDimensions;
\* the deferred Close runs on every return after ReadAll
FieldDimensionsFinish ==
    /\ pc = "execret"
    /\ f = "fielddimensions"
    /\ IF err # Nil
       THEN /\ Return(Nil, err)
            /\ UNCHANGED bodies
       ELSE \E r \in ReadAllOutcomes(resp.body) :
               /\ bodies' = CloseBody(ReadTo(bodies, resp.body, r.n), resp.body)
               /\ IF ~r.ok
                  THEN Return(Nil, Error("read", 0, ""))
                  ELSE \E u \in ProtoUnmarshal(bodies[resp.body].sent) :
                          IF ~u.ok
                          THEN Return(Nil, Error("decode", 0, ""))
                          ELSE LET res == FieldDimensionsResult(u.msg)
                               IN Return(res.val, res.err)
    /\ UNCHANGED <<closeCalls, prevHost, par, runs, ric, cluster, op, data, aliveNodes, nodesErr, f, attempt,
                   req, resp, err, trace>>

-----------------------------------------------------------------------------
(* ExpandSources, lines 163-211 *)

ExpandSourcesResolved == Resolved("ExpandSources", "expandsources")

\* ExpandSourcesResult returning respSources together with the decode error
ExpandSourcesResultKeepsSources(msg) ==
    IF msg.Error # ""
    THEN [val |-> Nil, err |-> RemoteError(msg.Error)]
    ELSE LET d == UnmarshalSources(msg.Sources)
         IN [val |-> [sources |-> d.val],
             err |-> IF d.ok THEN Nil ELSE Error("decode", 0, "sources")]

\* lines 201-210: the embedded error, or the decoded sources list
ExpandSourcesResult(msg) ==
    IF msg.Error # ""
    THEN [val |-> Nil, err |-> RemoteError(msg.Error)]
    ELSE LET d == UnmarshalSources(msg.Sources)
         IN IF d.ok
            THEN [val |-> [sources |-> d.val], err |-> Nil]
            ELSE [val |-> Nil, err |-> Error("decode", 0, "sources")]

\* lines 184-210: from the executor's return to the return of ExpandSources;
\* the deferred Close runs on every return after ReadAll
ExpandSourcesFinish ==
    /\ pc = "execret"
    /\ f = "expandsources"
    /\ IF err # Nil
       THEN /\ Return(Nil, err)
            /\ UNCHANGED bodies
       ELSE \E r \in ReadAllOutcomes(resp.body) :
               /\ bodies' = CloseBody(ReadTo(bodies, resp.body, r.n), resp.body)
               /\ IF ~r.ok
                  THEN Return(Nil, Error("read", 0, ""))
                  ELSE \E u \in ProtoUnmarshal(bodies[resp.body].sent) :
                          IF ~u.ok
                          THEN Return(Nil, Error("decode", 0, ""))
                          ELSE LET res == ExpandSourcesResult(u.msg)
                               IN Return(res.val, res.err)
    /\ UNCHANGED <<closeCalls, prevHost, par, runs, ric, cluster, op, data, aliveNodes, nodesErr, f, attempt,
                   req, resp, err, trace>>

-----------------------------------------------------------------------------
(* The iterator CreateIterator returned: RemoteFloatIterator and the other  *)
(* three variants, which share one shape                                    *)

\* Close with no test of the Closed flag
IteratorCloseUnguarded(it, bs) ==
    [it |-> [it EXCEPT !.Closed = TRUE], bodies |-> CloseBody(bs, it.CloseReader)]

\* Close(): the first call sets Closed and invokes CloseReader; later calls
\* do nothing
IteratorClose(it, bs) ==
    IF it.Closed
    THEN [it |-> it, bodies |-> bs]
    ELSE [it |-> [it EXCEPT !.Closed = TRUE],
          bodies |-> CloseBody(bs, it.CloseReader)]

\* the caller holds an iterator
HasIterator == pc = "done" /\ op = "CreateIterator" /\ ret.val # Nil

\* the caller calls Close()
IterClose ==
    /\ HasIterator
    /\ closeCalls < MaxCloseCalls
    /\ LET r == IteratorClose(ret.val, bodies)
       IN /\ ret' = [ret EXCEPT !.val = r.it]
          /\ bodies' = r.bodies
    /\ closeCalls' = closeCalls + 1
    /\ UNCHANGED <<prevHost, par, runs, ric, cluster, op, pc, data, aliveNodes,
                   nodesErr, f, attempt, req, resp, err, trace>>

\* the caller calls Next(): end of stream on a closed iterator; otherwise the
\* next point of the decoder, or, at the end of the body, end of stream, where
\* the iterator may release the body through Close()
IterNext ==
    /\ HasIterator
    /\ LET it == ret.val
           b == bodies[it.PointDecoder]
       IN IF it.Closed
          THEN UNCHANGED <<ret, bodies>>
          ELSE IF b.pos < Len(b.sent)
          THEN /\ bodies' = ReadTo(bodies, it.PointDecoder, b.pos + 1)
               /\ UNCHANGED ret
          ELSE \E release \in BOOLEAN :
                  LET r == IF release THEN IteratorClose(it, bodies)
                           ELSE [it |-> it, bodies |-> bodies]
                  IN /\ ret' = [ret EXCEPT !.val = r.it]
                     /\ bodies' = r.bodies
    /\ UNCHANGED <<closeCalls, prevHost, par, runs, ric, cluster, op, pc, data,
                   aliveNodes, nodesErr, f, attempt, req, resp, err, trace>>

-----------------------------------------------------------------------------
(* Two concurrent invocations *)

\* the variables of the single invocation
single == <<ric, cluster, op, pc, data, aliveNodes, nodesErr, f, attempt, req,
            resp, err, trace, bodies, ret, runs, closeCalls, prevHost>>

\* the outcomes the environment may give goroutine p's next step
Inputs(fr) ==
    IF fr.pc = "idle" THEN Operations
    ELSE IF fr.pc # "do" THEN {"-"}
    ELSE IF fr.f = "nodes" \/ fr.aliveNodes # Nil THEN {"ok", "fail"}
    ELSE {"fail"}

\* what goroutine p's record becomes when its frame takes a step on input o
Stepped(h, o) ==
    [frame |-> FrameStep(h.frame, o),
     ins |-> IF h.frame.pc = "do" THEN Append(h.ins, o) ELSE h.ins,
     steps |-> IF h.frame.pc = "idle" THEN 0 ELSE h.steps + 1]

\* ParStep with attempt a variable of the package, which every running
\* invocation reads and writes
ParStepSharedAttempt(p) ==
    /\ par[p].frame.pc # "done"
    /\ \E o \in Inputs(par[p].frame) :
          LET new == Stepped(par[p], o)
          IN par' = [q \in Procs |->
                       IF q = p THEN new
                       ELSE [par[q] EXCEPT !.frame.attempt = new.frame.attempt]]
    /\ UNCHANGED single

\* goroutine p takes its next step; it reads and writes its own frame only
ParStep(p) ==
    /\ par[p].frame.pc # "done"
    /\ \E o \in Inputs(par[p].frame) :
          par' = [par EXCEPT ![p] = Stepped(par[p], o)]
    /\ UNCHANGED single

Step1 == ParStep(1)

Step2 == ParStep(2)

-----------------------------------------------------------------------------
(* The specification *)

Next ==
    \/ CallCreateIterator
    \/ CallFieldDimensions
    \/ CallExpandSources
    \/ MembershipChange
    \/ AliveNodesMapCall
    \/ Build
    \/ Do
    \/ Sleep
    \/ AliveNodesMapReturn
    \/ CreateIteratorMarshal
    \/ CreateIteratorFinish
    \/ FieldDimensionsResolved
    \/ FieldDimensionsFinish
    \/ ExpandSourcesResolved
    \/ ExpandSourcesFinish
    \/ IterNext
    \/ IterClose

Spec == Init /\ [][Next]_vars

\* two goroutines invoke operations of one creator concurrently
ParInit ==
    /\ Init
    /\ ric.NodeID = 1
    /\ cluster = << Node(1, "10.0.0.1:9000", TRUE) >>

ParNext == Step1 \/ Step2

SpecPar == ParInit /\ [][ParNext]_vars

-----------------------------------------------------------------------------
(* Properties of ExpBackoffRequest *)

\* the executor has returned to its caller, and resp, err are what it returned
ExecReturned == pc = "execret"
\* it returned because every attempt ended in a transport error
Exhausted == ExecReturned /\ err # Nil /\ err.kind = "transport"
\* the events of attempt k are one build and then one HTTP call
OneBuildThenOneCall(k) ==
    /\ Cardinality({ i \in Events("build") : trace[i].attempt = k }) = 1
    /\ Cardinality({ i \in Events("do") : trace[i].attempt = k }) = 1
    /\ \A i \in Events("build"), j \in Events("do") :
          (trace[i].attempt = k /\ trace[j].attempt = k) => i < j

\* C1: when every attempt fails in the transport, the executor makes exactly 5
\* attempts, each one builder invocation followed by one HTTP call, never a
\* 6th, and returns the transport error of the 5th attempt.
C1_FiveAttemptsThenLastError ==
    /\ Builds <= 5
    /\ Calls <= 5
    /\ Exhausted =>
          /\ Builds = 5
          /\ Calls = 5
          /\ \A k \in 1..5 : OneBuildThenOneCall(k)
          /\ err = TransportError(5)

C1_Witness == Exhausted /\ Calls = 5 /\ f = "read"

\* C2: the sleep after the failed attempt k lasts (2^k - 1)/2 seconds:
\* 0.5 s, 1.5 s, 3.5 s, 7.5 s after attempts 1, 2, 3, 4.
C2_SleepIsHalfSeconds ==
    \A i \in Events("sleep") :
        2 * trace[i].d = (Pow2(trace[i].attempt) - 1) * Second

\* C3: with a transport failure on every attempt there are exactly 4 sleeps,
\* and none between the failure of the final attempt and the return.
C3_SleepsOnlyBetweenAttempts ==
    Exhausted =>
        /\ Sleeps = 4
        /\ trace[Len(trace)].e # "sleep"

\* C4: a builder error is returned at once: no HTTP call for that attempt, no
\* sleep after it, and no further builder invocation.
C4_BuilderErrorReturnsAtOnce ==
    \A i \in Events("build") :
        ~trace[i].ok =>
            /\ i = Len(trace)
            /\ pc \notin {"build", "do", "sleep"}
            /\ resp = Nil
            /\ err = Error("build", 0, "")

C4_Witness ==
    /\ ExecReturned
    /\ err = Error("build", 0, "")
    /\ attempt = 3
    /\ Sleeps = 2

\* C5: when the HTTP call of attempt k succeeds, the executor returns that
\* response with a nil error at once, after exactly k builder invocations,
\* k HTTP calls and k-1 sleeps.
C5_SuccessReturnsAtOnce ==
    (ExecReturned /\ err = Nil) =>
        /\ attempt \in 1..5
        /\ resp # Nil
        /\ resp.body = Len(bodies)
        /\ bodies[resp.body].kind = f
        /\ trace[Len(trace)] = Event("do", attempt, TRUE, 0)
        /\ Builds = attempt
        /\ Calls = attempt
        /\ Sleeps = attempt - 1

C5_Witness ==
    /\ ExecReturned
    /\ err = Nil
    /\ attempt = 3
    /\ Sleeps = 2
    /\ Calls = 3

\* C6: a response with an error status (4xx/5xx) is no transport failure: the
\* attempt that receives it returns it with a nil error, with no retry and no
\* sleep caused by the status.
C6_ErrorStatusIsSuccess ==
    /\ []((ExecReturned /\ resp # Nil /\ resp.status >= 400) =>
            /\ err = Nil
            /\ trace[Len(trace)] = Event("do", attempt, TRUE, 0))
    /\ [][(pc = "do" /\ Len(bodies') = Len(bodies) + 1) =>
            /\ pc' = "execret"
            /\ err' = Nil
            /\ resp' # Nil
            /\ resp'.body = Len(bodies')
            /\ resp'.status \in Statuses
            /\ Sleeps' = Sleeps
            /\ Builds' = Builds]_vars

C6_Witness ==
    /\ ExecReturned
    /\ err = Nil
    /\ resp # Nil
    /\ resp.status = 500
    /\ attempt = 2

-----------------------------------------------------------------------------
(* Properties of the three operations *)

\* the operation has returned after the executor handed it a response
ReturnedAfterResponse(name, endpoint) ==
    /\ pc = "done"
    /\ op = name
    /\ f = endpoint
    /\ resp # Nil
\* the first chunk of the body of that response
Envelope == Head(bodies[resp.body].sent)
\* the envelope of that response was read and decoded
Decoded ==
    /\ Envelope # Garbage
    /\ ret.err # Nil => ret.err.kind \notin {"read", "decode"}

\* C7: when CreateIterator succeeds, only the envelope has been consumed: the
\* body is open and the points after the envelope are all unread.
C7_OnlyEnvelopeConsumed ==
    (ReturnedAfterResponse("CreateIterator", "read") /\ ret.err = Nil) =>
        /\ ret.val # Nil
        /\ bodies[ret.val.PointDecoder].closes = 0
        /\ bodies[ret.val.PointDecoder].pos = 1

\* C8: every error return of CreateIterator after the executor handed back a
\* response closes the response body exactly once.
C8_ErrorReturnClosesBody ==
    (ReturnedAfterResponse("CreateIterator", "read") /\ ret.err # Nil) =>
        bodies[resp.body].closes = 1

\* C9: when the decoded /read envelope carries a non-empty error string,
\* CreateIterator returns that remote error and no iterator.
C9_EnvelopeErrorChecked ==
    (/\ ReturnedAfterResponse("CreateIterator", "read")
     /\ Decoded
     /\ Envelope.Error # "") =>
        /\ ret.val = Nil
        /\ ret.err = RemoteError(Envelope.Error)

\* C10: when the decoded response of FieldDimensions or ExpandSources carries
\* a non-empty error string, the operation returns an error with exactly that
\* message and nil results, whatever payload the response also carries.
C10_RemoteErrorReturned ==
    (/\ \/ ReturnedAfterResponse("FieldDimensions", "fielddimensions")
        \/ ReturnedAfterResponse("ExpandSources", "expandsources")
     /\ Decoded
     /\ Envelope.Error # "") =>
        /\ ret.val = Nil
        /\ ret.err # Nil
        /\ ret.err.msg = Envelope.Error

C10_Witness ==
    /\ ReturnedAfterResponse("FieldDimensions", "fielddimensions")
    /\ Decoded
    /\ Envelope.Error = "shard not found"
    /\ DOMAIN Envelope.Fields # {}
    /\ Envelope.Dimensions # << >>

-----------------------------------------------------------------------------
(* Properties of the node directory and of the return values *)

\* the executor is running, or has just returned, for the current builder
InExecutor == pc \in {"build", "do", "sleep", "execret"}

\* C11: when the target node is absent from the directory fetched for the
\* call, the operation does not go on with a zero-value node: no request is
\* built for the remote node and the executor is not run for it.
C11_AbsentNodeFails ==
    (f \in RpcEndpoints /\ InExecutor /\ aliveNodes # Nil) =>
        ric.NodeID \in DOMAIN aliveNodes.map

\* C12: a failure of the directory resolution is returned as the operation's
\* error, and no RPC to the remote node is attempted after it.
C12_ResolutionFailureReturned ==
    (nodesErr # Nil /\ pc \notin {"idle", "AliveNodesMap"}) =>
        /\ f = "nodes"
        /\ pc = "done" => ret.err = nodesErr

\* C15: every return is a result with a nil error or a non-nil error with nil
\* results: never an error with a result, never nil with nil.
C15_ResultOrError ==
    (pc = "done" /\ op # "none") =>
        /\ ret # Nil
        /\ (ret.val = Nil) <=> (ret.err # Nil)

C15_Witness ==
    /\ pc = "done"
    /\ op = "ExpandSources"
    /\ ret.val = Nil
    /\ ret.err = Error("decode", 0, "sources")

\* the membership array carried by the response AliveNodesMap received
ReceivedNodes == Head(bodies[resp.body].sent)
\* AliveNodesMap has returned after a well-formed membership response
ResolvedWellFormed ==
    /\ pc = "afterNodes"
    /\ resp # Nil
    /\ ReceivedNodes # Garbage

\* C16: on a well-formed membership response the directory's keys are exactly
\* the identifiers in the array, not alive nodes included, and each key maps
\* to a record of the array with that identifier.
C16_DirectoryMirrorsResponse ==
    ResolvedWellFormed =>
        LET list == ReceivedNodes.json
        IN /\ aliveNodes # Nil
           /\ nodesErr = Nil
           /\ DOMAIN aliveNodes.map = { list[i].ID : i \in DOMAIN list }
           /\ \A id \in DOMAIN aliveNodes.map :
                 \E i \in DOMAIN list :
                    list[i].ID = id /\ aliveNodes.map[id] = list[i]

C16_Witness ==
    /\ ResolvedWellFormed
    /\ aliveNodes # Nil
    /\ \E id \in DOMAIN aliveNodes.map : ~aliveNodes.map[id].Alive

\* C17: AliveNodesMap closes the response body it received before it returns,
\* on success and on a JSON decode error alike.
C17_DirectoryBodyClosed ==
    (pc = "afterNodes" /\ resp # Nil) => bodies[resp.body].closes >= 1

\* C18: once FieldDimensions or ExpandSources has a response, its body is
\* closed exactly once by the time the operation returns, on every path.
C18_BodyClosedOnce ==
    (\/ ReturnedAfterResponse("FieldDimensions", "fielddimensions")
     \/ ReturnedAfterResponse("ExpandSources", "expandsources")) =>
        bodies[resp.body].closes = 1

C18_Witness ==
    /\ ReturnedAfterResponse("ExpandSources", "expandsources")
    /\ ret.err = Error("decode", 0, "sources")
    /\ bodies[resp.body].closes = 1

-----------------------------------------------------------------------------
(* Properties of the returned iterator *)

\* C13: over any sequence of Next() and Close() calls the close callback is
\* invoked at most once, and the iterator goes from open to closed and never
\* back.
C13_CloseAtMostOnce ==
    /\ [](HasIterator =>
            /\ bodies[ret.val.CloseReader].closes <= 1
            /\ ret.val.Closed <=> bodies[ret.val.CloseReader].closes = 1)
    /\ [][(HasIterator /\ ret.val.Closed /\ HasIterator') =>
            ret'.val.Closed]_vars

C13_Witness ==
    /\ HasIterator
    /\ closeCalls = 2
    /\ ret.val.Closed
    /\ bodies[ret.val.CloseReader].closes = 1

-----------------------------------------------------------------------------
(* Properties of the calls as wholes *)

\* executor runs of this operation for endpoints in S
RunsFor(S) == Cardinality({ i \in DOMAIN runs : runs[i] \in S })
\* the membership array this operation received
FetchedNodes == Head(bodies[1].sent).json
\* positions of the target node in it
TargetRecords ==
    { i \in DOMAIN FetchedNodes : FetchedNodes[i].ID = ric.NodeID }
\* the request of the operation's RPC exists and the RPC is under way
RpcUnderWay == f \in RpcEndpoints /\ InExecutor /\ req # Nil

\* C14: each invocation resolves the directory once, itself, and sends its
\* RPC to the bind address of that fresh directory; nothing is kept from the
\* call before, so after a membership change the new address is used.
C14_FreshDirectoryPerCall ==
    RpcUnderWay =>
        /\ runs = << "nodes", f >>
        /\ aliveNodes # Nil =>
              /\ bodies[1].kind = "nodes"
              /\ FetchedNodes = cluster
              /\ TargetRecords # {} =>
                    \E i \in TargetRecords :
                       /\ \A j \in TargetRecords : j <= i
                       /\ req.host = FetchedNodes[i].BindAddress
              /\ TargetRecords = {} => req.host = ""
        /\ aliveNodes = Nil => req.host = ""

C14_Witness ==
    /\ RpcUnderWay
    /\ prevHost \notin {"none", ""}
    /\ req.host \notin {"", prevHost}

\* C19: a serialization error is fatal and never retried.  A local encode
\* failure returns with no RPC request made for the remote node; a response
\* that fails to decode returns without another executor run; so an operation
\* makes at most one RPC round trip that succeeds.  (Responses are those of
\* the remote node; the membership response is the subject of C12.)
C19_SerializationErrorFatal ==
    /\ RunsFor(RpcEndpoints) <= 1
    /\ Cardinality({ b \in DOMAIN bodies : bodies[b].kind \in RpcEndpoints }) <= 1
    /\ (pc = "done" /\ ret.err # Nil /\ ret.err.kind = "marshal") =>
          /\ RunsFor(RpcEndpoints) = 0
          /\ \A b \in DOMAIN bodies : bodies[b].kind = "nodes"
    /\ (pc = "done" /\ ret.err # Nil /\ ret.err.kind = "decode") =>
          /\ RunsFor(RpcEndpoints) = 1
          /\ f \in RpcEndpoints
          /\ resp # Nil
          /\ resp.body = Len(bodies)

C19_Witness ==
    /\ pc = "done"
    /\ op = "FieldDimensions"
    /\ ret.err = Error("decode", 0, "")
    /\ runs = << "nodes", "fielddimensions" >>

-----------------------------------------------------------------------------
(* Properties of concurrent invocations *)

RECURSIVE Replay(_, _, _)
\* the frame after n steps of an invocation that runs alone from frame fr and
\* gets the outcomes ins from its HTTP calls
Replay(fr, ins, n) ==
    IF n = 0 THEN fr
    ELSE IF fr.pc = "do"
    THEN Replay(FrameStep(fr, Head(ins)), Tail(ins), n - 1)
    ELSE Replay(FrameStep(fr, "-"), ins, n - 1)

=============================================================================
